---------------------------- MODULE Spec2Model ----------------------------
(* Booking store, booking form and booking list of the resort booking      *)
(* system: room-availability conflict detection, the check-then-insert     *)
(* submission flow, checkout, cancellation with refund, deletion and the   *)
(* status edits of the booking list.                                       *)
(*                                                                         *)
(* Dates are day numbers (date-only strings); money is counted in          *)
(* thousandths of a currency unit so that amounts finer than a cent exist. *)
EXTENDS Integers, Sequences, FiniteSets, TLC

VARIABLES
  bookings,       \* table 'bookings': id -> row
  booking_rooms,  \* table 'booking_rooms': set of rows
  nextId,         \* next primary key the store hands out
  build,          \* the build that is deployed: "single" (single-room form) or "multi"
  pc,             \* per form session: position inside handleSubmit
  formData,       \* per form session: the submitted form
  latestBookings, \* per form session: result of the re-fetch
  createdBooking, \* per form session: id of the row inserted by the multi-room flow
  outcome,        \* per form session: how the last handleSubmit ended
  probe,          \* inputs and result of one call of a pure function
  auth,           \* the auth session, the useAuth state of ProtectedRoute, signIn
  allBookings     \* per operator: the rows of the booking list as last fetched

vars == <<bookings, booking_rooms, nextId, build, pc, formData,
          latestBookings, createdBooking, outcome, probe, auth,
          allBookings>>

storeVars == <<bookings, booking_rooms, nextId>>
formVars  == <<pc, formData, latestBookings, createdBooking, outcome>>

---------------------------------------------------------------------------
(* Bounds *)

MaxDay      == 2   \* dates are 0..MaxDay
MaxBookings == 2   \* rows the store hands ids to
MaxStays    == 1   \* room entries of one multi-room form
MaxPool     == 2   \* reservations in a pool handed to the checker directly
MaxCands    == 2   \* candidates handed to checkMultiRoomConflict directly
MaxLines    == 2   \* room entries handed to calculateMultiRoomTotal directly

(* Input sets *)

Rooms    == {"A", "B"}
NoRoom   == ""          \* room_id '' of a form whose room was not selected
NullRoom == "null"      \* room_id null of a multi-room row
Days     == 0 .. MaxDay
Sessions == {1, 2}      \* booking forms open at the same time

Status   == {"Confirmed", "Paid", "Checked-out", "Cancelled"}

Cent == 10              \* one cent, the unit of a NUMERIC(10, 2) column, in thousandths
Taka == 100 * Cent      \* one currency unit in thousandths

MsPerDay == 86400000    \* 1000 * 60 * 60 * 24

---------------------------------------------------------------------------
(* Dates *)

\* new Date(d).getTime() of a date-only string: UTC midnight of that day
GetTime(d) == d * MsPerDay

\* formatDate: new Date(date).toISOString().split('T')[0]
formatDate(d) == GetTime(d) \div MsPerDay

---------------------------------------------------------------------------
(* Availability checker *)

NoConflict == [hasConflict |-> FALSE, conflictingBooking |-> 0]

Conflict(b) == [hasConflict |-> TRUE, conflictingBooking |-> b.id]

\* a test that finds only a new stay lying inside an existing one
OverlapsContained(newCheckIn, newCheckOut, existingCheckIn, existingCheckOut) ==
  newCheckIn >= existingCheckIn /\ newCheckOut <= existingCheckOut

\* a test that counts a shared boundary day as an overlap
OverlapsInclusive(newCheckIn, newCheckOut, existingCheckIn, existingCheckOut) ==
  newCheckIn <= existingCheckOut /\ newCheckOut >= existingCheckIn

\* the strict interval test of both checkers
Overlaps(newCheckIn, newCheckOut, existingCheckIn, existingCheckOut) ==
  newCheckIn < existingCheckOut /\ newCheckOut > existingCheckIn

\* a loop body that looks at reservations of every status
BlockedByAnyStatus(booking, room_id, check_in, check_out) ==
  \/ /\ booking.room_id = room_id
     /\ Overlaps(GetTime(check_in), GetTime(check_out),
                 GetTime(booking.check_in), GetTime(booking.check_out))
  \/ \E i \in 1 .. Len(booking.booking_rooms) :
       /\ booking.booking_rooms[i].room_id = room_id
       /\ Overlaps(GetTime(check_in), GetTime(check_out),
                   GetTime(booking.booking_rooms[i].check_in_date),
                   GetTime(booking.booking_rooms[i].check_out_date))

\* a loop body that skips checked-out reservations only
BlockedBySkipCheckedOut(booking, room_id, check_in, check_out) ==
  /\ booking.status # "Checked-out"
  /\ BlockedByAnyStatus(booking, room_id, check_in, check_out)

\* does one pool reservation block room_id on [check_in, check_out) ?
\* (body of the loop over existingBookings, shared by both checkers)
BlockedBy(booking, room_id, check_in, check_out) ==
  /\ ~(booking.status = "Checked-out" \/ booking.status = "Cancelled")
  /\ \/ /\ booking.room_id = room_id
        /\ Overlaps(GetTime(check_in), GetTime(check_out),
                    GetTime(booking.check_in), GetTime(booking.check_out))
     \/ \E i \in 1 .. Len(booking.booking_rooms) :
          /\ booking.booking_rooms[i].room_id = room_id
          /\ Overlaps(GetTime(check_in), GetTime(check_out),
                      GetTime(booking.booking_rooms[i].check_in_date),
                      GetTime(booking.booking_rooms[i].check_out_date))

\* the loop over existingBookings: first blocking reservation in pool order
RECURSIVE ScanPool(_, _, _, _, _)
ScanPool(existingBookings, k, room_id, check_in, check_out) ==
  IF k > Len(existingBookings) THEN NoConflict
  ELSE IF BlockedBy(existingBookings[k], room_id, check_in, check_out)
       THEN Conflict(existingBookings[k])
       ELSE ScanPool(existingBookings, k + 1, room_id, check_in, check_out)

\* a single-room checker that reads the room_id column only and never the
\* booking_rooms of a reservation
RECURSIVE ScanPoolRoomIdOnly(_, _, _, _, _)
ScanPoolRoomIdOnly(existingBookings, k, room_id, check_in, check_out) ==
  IF k > Len(existingBookings) THEN NoConflict
  ELSE IF BlockedBy([existingBookings[k] EXCEPT !.booking_rooms = <<>>],
                    room_id, check_in, check_out)
       THEN Conflict(existingBookings[k])
       ELSE ScanPoolRoomIdOnly(existingBookings, k + 1, room_id, check_in, check_out)

checkRoomConflictRoomIdOnly(newBooking, existingBookings) ==
  IF newBooking.room_id = NoRoom THEN NoConflict
  ELSE ScanPoolRoomIdOnly(existingBookings, 1, newBooking.room_id,
                          newBooking.check_in, newBooking.check_out)

checkRoomConflict(newBooking, existingBookings) ==
  IF newBooking.room_id = NoRoom THEN NoConflict
  ELSE ScanPool(existingBookings, 1, newBooking.room_id,
                newBooking.check_in, newBooking.check_out)

RECURSIVE ScanRanges(_, _, _)
ScanRanges(roomDateRanges, j, existingBookings) ==
  IF j > Len(roomDateRanges) THEN NoConflict
  ELSE LET r == roomDateRanges[j]
           c == ScanPool(existingBookings, 1, r.room_id, r.check_in, r.check_out)
       IN IF c.hasConflict THEN c
          ELSE ScanRanges(roomDateRanges, j + 1, existingBookings)

\* the two loops the other way round: the first reservation of the pool that
\* blocks any of the candidates
RECURSIVE ScanPoolFirst(_, _, _)
ScanPoolFirst(roomDateRanges, existingBookings, k) ==
  IF k > Len(existingBookings) THEN NoConflict
  ELSE IF \E j \in 1 .. Len(roomDateRanges) :
            BlockedBy(existingBookings[k], roomDateRanges[j].room_id,
                      roomDateRanges[j].check_in, roomDateRanges[j].check_out)
       THEN Conflict(existingBookings[k])
       ELSE ScanPoolFirst(roomDateRanges, existingBookings, k + 1)

checkMultiRoomConflictPoolFirst(roomDateRanges, existingBookings) ==
  ScanPoolFirst(roomDateRanges, existingBookings, 1)

\* a checker that also compares the candidates of the request with each other
checkMultiRoomConflictSiblings(roomDateRanges, existingBookings) ==
  IF \E i, j \in 1 .. Len(roomDateRanges) :
       /\ i < j
       /\ roomDateRanges[i].room_id = roomDateRanges[j].room_id
       /\ Overlaps(GetTime(roomDateRanges[i].check_in),
                   GetTime(roomDateRanges[i].check_out),
                   GetTime(roomDateRanges[j].check_in),
                   GetTime(roomDateRanges[j].check_out))
  THEN [hasConflict |-> TRUE, conflictingBooking |-> 0]
  ELSE ScanRanges(roomDateRanges, 1, existingBookings)

checkMultiRoomConflict(roomDateRanges, existingBookings) ==
  ScanRanges(roomDateRanges, 1, existingBookings)

---------------------------------------------------------------------------
(* Pricing and refund calculator (amounts in thousandths) *)

CeilDiv(a, b)  == -((-a) \div b)            \* Math.ceil(a / b), b > 0
RoundDiv(a, b) == (a + b \div 2) \div b    \* Math.round(a / b), b > 0 and even

\* The amounts are doubles in the program. Of the amounts the handlers and
\* the calculator are given here, these are the ones whose product, computed
\* in doubles, lies above the exact product, so that Math.ceil ends one cent
\* higher:  6 * 0.025 * 100 = 15.000000000000002
VATProductAbove == {6 * Taka}
\*          1.1 * 100 = 110.00000000000001
TotalProductAbove == {1 * Taka + 10 * Cent}

\* Math.ceil(price * 0.025 * 100) / 100
calculateVAT(price, isApplicable) ==
  IF ~isApplicable THEN 0
  ELSE (CeilDiv(price * 25, 1000 * Cent)
          + IF price \in VATProductAbove THEN 1 ELSE 0) * Cent

\* Math.ceil((price + vat) * 100) / 100
calculateTotalPrice(price, vat) ==
  (CeilDiv(price + vat, Cent)
     + IF price + vat \in TotalProductAbove THEN 1 ELSE 0) * Cent

\* a payable that is never below zero
calculateCheckoutPayableNonNegative(totalPrice, advance, extraIncome, discount) ==
  IF totalPrice - advance + extraIncome - discount < 0 THEN 0
  ELSE RoundDiv(totalPrice - advance + extraIncome - discount, Cent) * Cent

\* Math.round((totalPrice - advance + extraIncome - discount) * 100) / 100
calculateCheckoutPayable(totalPrice, advance, extraIncome, discount) ==
  RoundDiv(totalPrice - advance + extraIncome - discount, Cent) * Cent

\* nights of one room entry: Math.ceil((checkOut - checkIn) / day)
Nights(rb) ==
  CeilDiv(GetTime(rb.check_out_date) - GetTime(rb.check_in_date), MsPerDay)

RECURSIVE SumRoomTotal(_, _)
SumRoomTotal(roomBookings, k) ==
  IF k > Len(roomBookings) THEN 0
  ELSE roomBookings[k].price_per_night * Nights(roomBookings[k])
       + SumRoomTotal(roomBookings, k + 1)

RECURSIVE SumRoomVAT(_, _)
SumRoomVAT(roomBookings, k) ==
  IF k > Len(roomBookings) THEN 0
  ELSE CeilDiv(roomBookings[k].price_per_night * Nights(roomBookings[k]) * 25,
               1000 * Cent) * Cent
       + SumRoomVAT(roomBookings, k + 1)

calculateMultiRoomTotal(roomBookings, vatApplicable, vatAdjustment) ==
  LET totalPrice == SumRoomTotal(roomBookings, 1)
      totalVAT   == CeilDiv(IF vatApplicable THEN SumRoomVAT(roomBookings, 1) ELSE 0,
                            Cent) * Cent + vatAdjustment
  IN [total_price |-> CeilDiv(totalPrice + totalVAT, Cent) * Cent,
      vat_amount  |-> totalVAT]

\* calculateNights of calculationUtils; checkIn and checkOut are the instants
\* new Date(...).getTime() of the two date strings
calculateNights(checkIn, checkOut) ==
  LET nights == CeilDiv(checkOut - checkIn, MsPerDay)
  IN IF nights >= 1 THEN nights ELSE 1

\* calculateNights of bookingUtils
calculateNightsOfBookingUtils(checkIn, checkOut) ==
  CeilDiv(checkOut - checkIn, MsPerDay)

NoCustom == -1   \* customRefund undefined

\* tiers whose 85% starts one day late
RefundPercentageAfterSeven(daysUntilCheckIn) ==
  IF daysUntilCheckIn <= 0 THEN 0
  ELSE IF daysUntilCheckIn <= 3 THEN 0
  ELSE IF daysUntilCheckIn <= 7 THEN 50
  ELSE 85

\* percentage tiers of calculateRefund
RefundPercentage(daysUntilCheckIn) ==
  IF daysUntilCheckIn <= 0 THEN 0
  ELSE IF daysUntilCheckIn <= 3 THEN 0
  ELSE IF daysUntilCheckIn < 7 THEN 50
  ELSE 85

\* today: the day the call is made (new Date() with the time cleared)
calculateRefund(bookingPrice, checkInDate, advancePaid, customRefund, today) ==
  IF customRefund # NoCustom
  THEN [refundAmount |-> RoundDiv(customRefund, Cent) * Cent, policy |-> "Custom"]
  ELSE LET daysUntilCheckIn ==
             CeilDiv(GetTime(checkInDate) - GetTime(today), MsPerDay)
           refundPercentage == RefundPercentage(daysUntilCheckIn)
       IN [refundAmount |-> RoundDiv(advancePaid * refundPercentage, 100 * Cent) * Cent,
           policy |-> IF refundPercentage = 0 THEN "100% charge"
                      ELSE IF refundPercentage = 50 THEN "50% refund"
                      ELSE "85% refund"]

---------------------------------------------------------------------------
(* The store: tables 'bookings' and 'booking_rooms' *)

Ids == 1 .. MaxBookings

\* embedded booking_rooms(*) of one reservation, in insertion order
RoomsOf(id) ==
  LET rows == {r \in booking_rooms : r.booking_id = id}
      n    == Cardinality(rows)
  IN [i \in 1 .. n |-> CHOOSE r \in rows :
                          Cardinality({q \in rows : q.idx < r.idx}) = i - 1]

\* a fetch that never embeds booking_rooms
FetchedWithoutRooms(id, embedRooms) ==
  [id |-> id, status |-> bookings[id].status, room_id |-> bookings[id].room_id,
   check_in |-> bookings[id].check_in, check_out |-> bookings[id].check_out,
   booking_rooms |-> <<>>]

\* one fetched reservation: the row plus, when the query embeds it, booking_rooms
Fetched(id, embedRooms) ==
  [id |-> id, status |-> bookings[id].status, room_id |-> bookings[id].room_id,
   check_in |-> bookings[id].check_in, check_out |-> bookings[id].check_out,
   booking_rooms |-> IF embedRooms THEN RoomsOf(id) ELSE <<>>]

\* from('bookings').select(...).neq('status', 'Checked-out'), rows in id order
RECURSIVE SelectFrom(_, _)
SelectFrom(id, embedRooms) ==
  IF id >= nextId THEN <<>>
  ELSE IF id \in DOMAIN bookings /\ bookings[id].status # "Checked-out"
       THEN <<Fetched(id, embedRooms)>> \o SelectFrom(id + 1, embedRooms)
       ELSE SelectFrom(id + 1, embedRooms)

SelectBookings(embedRooms) == SelectFrom(1, embedRooms)

\* a value written to a NUMERIC(10, 2) column: rounded to cents, halves away
\* from zero
Numeric2(x) ==
  IF x >= 0 THEN ((x + Cent \div 2) \div Cent) * Cent
  ELSE -((((-x) + Cent \div 2) \div Cent) * Cent)

\* a row as the table keeps it: price, advance, vat_amount, checkout_payable
\* and refund_amount are NUMERIC(10, 2); pending_amount and revenue are numeric
Stored(row) ==
  [row EXCEPT !.price = Numeric2(@), !.advance = Numeric2(@),
              !.vat_amount = Numeric2(@), !.checkout_payable = Numeric2(@),
              !.refund_amount = Numeric2(@)]

\* from('bookings').insert([row]): the store assigns the id
InsertRow(row) ==
  /\ bookings' = [i \in DOMAIN bookings \cup {nextId} |->
                    IF i = nextId THEN Stored(row) ELSE bookings[i]]
  /\ nextId' = nextId + 1

\* from('bookings').update(fields).eq('id', id): no row, no effect
UpdateRow(id, new) ==
  /\ bookings' = IF id \in DOMAIN bookings
                 THEN [bookings EXCEPT ![id] = Stored(new)] ELSE bookings
  /\ UNCHANGED <<booking_rooms, nextId>>

\* booking_rooms.booking_id refers to bookings.id: the store takes a room
\* entry only while the reservation it belongs to exists
HasParent(id) == id \in DOMAIN bookings

\* a store that keeps the room entries of a deleted reservation
CascadeNone(rows, id) == rows

\* the room entries left once reservation id is deleted: the store deletes
\* the entries of a deleted reservation with it
Cascade(rows, id) == {r \in rows : r.booking_id # id}

---------------------------------------------------------------------------
(* Booking form *)

StayInput(r, i, o) ==
  [room_id |-> r, check_in_date |-> i, check_out_date |-> o,
   price_per_night |-> IF r = "B" THEN 550 * Taka ELSE 500 * Taka]

BaseForm ==
  [bookingType |-> "single", room_id |-> "A", check_in |-> 0, check_out |-> 1,
   price |-> 500 * Taka, advance |-> 200 * Taka,
   vat_applicable |-> TRUE, vat_adjustment |-> 0, roomBookings |-> <<>>]

EmptyForm == [BaseForm EXCEPT !.room_id = NoRoom, !.check_out = 0]

\* a validation that never compares the dates of a room entry
validateFormNoStayDates(f) ==
  IF f.bookingType = "single"
  THEN /\ f.room_id # NoRoom
       /\ ~(GetTime(f.check_in) >= GetTime(f.check_out))
  ELSE /\ Len(f.roomBookings) # 0
       /\ ~(GetTime(f.check_in) >= GetTime(f.check_out))
       /\ \A i \in 1 .. Len(f.roomBookings) : f.roomBookings[i].room_id # NoRoom

\* validateForm (room, dates and room entries) and the date test of handleSubmit
validateForm(f) ==
  IF f.bookingType = "single"
  THEN /\ f.room_id # NoRoom
       /\ ~(GetTime(f.check_in) >= GetTime(f.check_out))
  ELSE /\ Len(f.roomBookings) # 0
       /\ ~(GetTime(f.check_in) >= GetTime(f.check_out))
       /\ \A i \in 1 .. Len(f.roomBookings) :
            /\ f.roomBookings[i].room_id # NoRoom
            /\ ~(GetTime(f.roomBookings[i].check_in_date)
                   >= GetTime(f.roomBookings[i].check_out_date))

\* the two effects that keep calculatedValues in step with the form
calculatedValues(f) ==
  IF f.bookingType = "single"
  THEN LET vat         == CeilDiv(calculateVAT(f.price, f.vat_applicable), Taka) * Taka
           adjustedVAT == vat + f.vat_adjustment
           total       == calculateTotalPrice(f.price, adjustedVAT)
       IN [vat_amount |-> adjustedVAT, total_price |-> total,
           checkout_payable |-> calculateCheckoutPayable(total, f.advance, 0, 0)]
  ELSE LET totals == calculateMultiRoomTotal(f.roomBookings, f.vat_applicable,
                                             f.vat_adjustment)
       IN [vat_amount |-> totals.vat_amount, total_price |-> totals.total_price,
           checkout_payable |->
             calculateCheckoutPayable(totals.total_price, f.advance, 0, 0)]

\* newBooking of the single-room flow
SingleRoomBooking(f, id) ==
  [id |-> id, room_id |-> f.room_id,
   check_in |-> formatDate(f.check_in), check_out |-> formatDate(f.check_out),
   price |-> f.price, advance |-> f.advance,
   vat_applicable |-> f.vat_applicable,
   vat_amount |-> calculatedValues(f).vat_amount,
   checkout_payable |-> calculatedValues(f).checkout_payable,
   status |-> "Confirmed", revenue |-> f.advance,
   pending_amount |-> f.price - f.advance, refund_amount |-> 0,
   total_rooms |-> 0]

\* newBooking of the multi-room flow
MultiRoomBooking(f, id) ==
  [id |-> id, room_id |-> NullRoom,
   check_in |-> formatDate(f.check_in), check_out |-> formatDate(f.check_out),
   price |-> calculatedValues(f).total_price - calculatedValues(f).vat_amount,
   advance |-> f.advance,
   vat_applicable |-> f.vat_applicable,
   vat_amount |-> calculatedValues(f).vat_amount,
   checkout_payable |-> calculatedValues(f).checkout_payable,
   status |-> "Confirmed", revenue |-> f.advance,
   pending_amount |-> calculatedValues(f).total_price - f.advance
                      - calculatedValues(f).vat_amount,
   refund_amount |-> 0,
   total_rooms |-> Len(f.roomBookings)]

\* roomDateRanges handed to checkMultiRoomConflict
RoomDateRanges(f) ==
  [i \in 1 .. Len(f.roomBookings) |->
     [room_id |-> f.roomBookings[i].room_id,
      check_in |-> f.roomBookings[i].check_in_date,
      check_out |-> f.roomBookings[i].check_out_date]]

\* bookingRoomEntries inserted after the reservation row
BookingRoomEntries(f, id) ==
  {[booking_id |-> id, idx |-> i, room_id |-> f.roomBookings[i].room_id,
    check_in_date |-> f.roomBookings[i].check_in_date,
    check_out_date |-> f.roomBookings[i].check_out_date,
    price_per_night |-> f.roomBookings[i].price_per_night] :
     i \in 1 .. Len(f.roomBookings)}

\* an availability check that reads the store again instead of the re-fetch
ConflictCheckOnStore(f, latest) ==
  IF f.bookingType = "single"
  THEN checkRoomConflict(SingleRoomBooking(f, 0), SelectBookings(TRUE))
  ELSE checkMultiRoomConflict(RoomDateRanges(f), SelectBookings(TRUE))

\* the availability check of handleSubmit on the re-fetched reservations
ConflictCheck(f, latest) ==
  IF f.bookingType = "single"
  THEN checkRoomConflict(SingleRoomBooking(f, 0), latest)
  ELSE checkMultiRoomConflict(RoomDateRanges(f), latest)

\* rows still to be inserted by submissions under way
InFlight == Cardinality({s \in Sessions : pc[s] = "fetched"})

\* an end of handleSubmit that reports a conflict through the catch block
FinishThrow(s, result) ==
  /\ pc' = [pc EXCEPT ![s] = "idle"]
  /\ outcome' = [outcome EXCEPT ![s] = IF result = "conflict" THEN "error" ELSE result]
  /\ formData' = [formData EXCEPT ![s] = EmptyForm]
  /\ latestBookings' = [latestBookings EXCEPT ![s] = <<>>]
  /\ createdBooking' = [createdBooking EXCEPT ![s] = 0]

Finish(s, result) ==
  /\ pc' = [pc EXCEPT ![s] = "idle"]
  /\ outcome' = [outcome EXCEPT ![s] = result]
  /\ formData' = [formData EXCEPT ![s] = EmptyForm]
  /\ latestBookings' = [latestBookings EXCEPT ![s] = <<>>]
  /\ createdBooking' = [createdBooking EXCEPT ![s] = 0]

\* handleSubmit up to the answer of the re-fetch
\* (fetchOk = FALSE: the re-fetch returns an error, which is thrown and caught)
SubmitFetch(s, f, fetchOk) ==
  /\ build = "multi"
  /\ pc[s] = "idle"
  /\ nextId + InFlight <= MaxBookings
  /\ IF ~validateForm(f)
     THEN /\ outcome' = [outcome EXCEPT ![s] = "invalid"]
          /\ UNCHANGED <<pc, formData, latestBookings, createdBooking>>
     ELSE IF ~fetchOk
     THEN /\ outcome' = [outcome EXCEPT ![s] = "error"]
          /\ UNCHANGED <<pc, formData, latestBookings, createdBooking>>
     ELSE /\ pc' = [pc EXCEPT ![s] = "fetched"]
          /\ formData' = [formData EXCEPT ![s] = f]
          /\ latestBookings' = [latestBookings EXCEPT ![s] = SelectBookings(TRUE)]
          /\ UNCHANGED <<outcome, createdBooking>>
  /\ UNCHANGED <<storeVars, build, probe, auth, allBookings>>

\* handleSubmit from the availability check to the insert into 'bookings'
\* (insertOk = FALSE: the store answers the insert with an error)
SubmitInsert(s, insertOk) ==
  /\ pc[s] = "fetched"
  /\ formData[s].bookingType \in {"single", "multi"}
  /\ LET f == formData[s]
         c == ConflictCheck(f, latestBookings[s])
     IN IF c.hasConflict /\ c.conflictingBooking # 0
        THEN /\ Finish(s, "conflict")
             /\ UNCHANGED storeVars
        ELSE IF ~insertOk
        THEN /\ Finish(s, "error")
             /\ UNCHANGED storeVars
        ELSE IF f.bookingType = "single"
        THEN /\ InsertRow(SingleRoomBooking(f, nextId))
             /\ Finish(s, "success")
             /\ UNCHANGED booking_rooms
        ELSE /\ InsertRow(MultiRoomBooking(f, nextId))
             /\ pc' = [pc EXCEPT ![s] = "rooms"]
             /\ createdBooking' = [createdBooking EXCEPT ![s] = nextId]
             /\ UNCHANGED <<booking_rooms, formData, latestBookings, outcome>>
  /\ UNCHANGED <<build, probe, auth, allBookings>>

\* handleSubmit, multi-room flow: the insert into 'booking_rooms'
\* (roomsOk = FALSE: the store answers with roomsError, which is thrown and
\* caught; it also does so when the reservation was deleted in the meantime)
SubmitInsertRooms(s, roomsOk) ==
  /\ pc[s] = "rooms"
  /\ IF /\ roomsOk
        /\ \A r \in BookingRoomEntries(formData[s], createdBooking[s]) :
             HasParent(r.booking_id)
     THEN /\ booking_rooms' = booking_rooms
                \cup BookingRoomEntries(formData[s], createdBooking[s])
          /\ Finish(s, "success")
     ELSE /\ Finish(s, "error")
          /\ UNCHANGED booking_rooms
  /\ UNCHANGED <<bookings, nextId, build, probe, auth, allBookings>>

---------------------------------------------------------------------------
(* The earlier single-room booking form *)

\* newBooking of the single-room form; the columns it does not send take
\* the defaults of the table
LegacyBooking(f, id) ==
  [id |-> id, room_id |-> f.room_id,
   check_in |-> formatDate(f.check_in), check_out |-> formatDate(f.check_out),
   price |-> f.price, advance |-> f.advance,
   vat_applicable |-> FALSE, vat_amount |-> 0, checkout_payable |-> 0,
   status |-> "Confirmed", revenue |-> 0, pending_amount |-> 0,
   refund_amount |-> 0, total_rooms |-> 0]

\* handleSubmit of the single-room form up to the answer of the re-fetch;
\* its query is select('*'): the rows come without booking_rooms
LegacySubmitFetch(s, f, fetchOk) ==
  /\ build = "single"
  /\ pc[s] = "idle"
  /\ nextId + InFlight <= MaxBookings
  /\ f.bookingType = "single"
  /\ IF f.room_id = NoRoom \/ GetTime(f.check_in) >= GetTime(f.check_out)
     THEN /\ outcome' = [outcome EXCEPT ![s] = "invalid"]
          /\ UNCHANGED <<pc, formData, latestBookings, createdBooking>>
     ELSE IF ~fetchOk
     THEN /\ outcome' = [outcome EXCEPT ![s] = "error"]
          /\ UNCHANGED <<pc, formData, latestBookings, createdBooking>>
     ELSE /\ pc' = [pc EXCEPT ![s] = "fetched"]
          /\ formData' = [formData EXCEPT ![s] = [f EXCEPT !.bookingType = "legacy"]]
          /\ latestBookings' = [latestBookings EXCEPT ![s] = SelectBookings(FALSE)]
          /\ UNCHANGED <<outcome, createdBooking>>
  /\ UNCHANGED <<storeVars, build, probe, auth, allBookings>>

\* handleSubmit of the single-room form from the check to the insert
LegacySubmitInsert(s, insertOk) ==
  /\ pc[s] = "fetched"
  /\ formData[s].bookingType = "legacy"
  /\ LET f == formData[s]
         c == checkRoomConflict(LegacyBooking(f, 0), latestBookings[s])
     IN IF c.hasConflict /\ c.conflictingBooking # 0
        THEN /\ Finish(s, "conflict")
             /\ UNCHANGED storeVars
        ELSE IF ~insertOk
        THEN /\ Finish(s, "error")
             /\ UNCHANGED storeVars
        ELSE /\ InsertRow(LegacyBooking(f, nextId))
             /\ Finish(s, "success")
             /\ UNCHANGED booking_rooms
  /\ UNCHANGED <<build, probe, auth, allBookings>>

---------------------------------------------------------------------------
(* Booking list *)

\* allBookings after fetchBookings: the rows of the store
Listed == {bookings[i] : i \in DOMAIN bookings}

Operators == {1, 2}     \* booking lists open at the same time

\* a row of a booking list: of one fetched for the action, or of the list an
\* operator fetched earlier
OnScreen(booking) ==
  booking \in Listed \/ \E o \in Operators : booking \in allBookings[o]

\* fetchBookings of the list of operator o
fetchBookings(o) ==
  /\ build = "multi"
  /\ allBookings' = [allBookings EXCEPT ![o] = Listed]
  /\ UNCHANGED <<storeVars, build, formVars, probe, auth>>

\* handleDelete: delete the booking_rooms entries, then the booking itself
\* (roomsDeleteOk = FALSE: the first delete returns an error, which is not
\* looked at; deleteOk = FALSE: the second delete returns an error)
handleDelete(id, roomsDeleteOk, deleteOk) ==
  /\ build = "multi"
  /\ id \in DOMAIN bookings
  /\ LET remaining == IF roomsDeleteOk
                      THEN {r \in booking_rooms : r.booking_id # id}
                      ELSE booking_rooms
     IN IF deleteOk
        THEN /\ bookings' = [i \in DOMAIN bookings \ {id} |-> bookings[i]]
             /\ booking_rooms' = Cascade(remaining, id)
        ELSE /\ bookings' = bookings
             /\ booking_rooms' = remaining
  /\ UNCHANGED <<nextId, build, formVars, probe, auth, allBookings>>

\* text of the custom refund field: parseFloat(customRefundAmount) || 0
ParseCustom(customRefundAmount) ==
  IF customRefundAmount = NoCustom THEN 0 ELSE customRefundAmount

\* a cancellation whose policy refund is taken from the price
processRefundOfPrice(booking, refundType, customRefundAmount, today) ==
  /\ build = "multi"
  /\ OnScreen(booking)
  /\ booking.status = "Confirmed"
  /\ LET refundAmount ==
           IF refundType = "policy"
           THEN calculateRefund(booking.price, booking.check_in,
                                booking.price, NoCustom, today).refundAmount
           ELSE ParseCustom(customRefundAmount)
     IN IF booking.id \in DOMAIN bookings
        THEN UpdateRow(booking.id,
               [bookings[booking.id] EXCEPT
                  !.status = "Cancelled", !.refund_amount = refundAmount,
                  !.checkout_payable = 0, !.pending_amount = 0,
                  !.revenue = booking.advance - refundAmount,
                  !.advance = booking.advance - refundAmount,
                  !.vat_amount = 0])
        ELSE UNCHANGED storeVars
  /\ UNCHANGED <<build, formVars, probe, auth, allBookings>>

\* a cancellation that never refunds more than the advance
processRefundCapped(booking, refundType, customRefundAmount, today) ==
  /\ build = "multi"
  /\ OnScreen(booking)
  /\ booking.status = "Confirmed"
  /\ LET asked ==
           IF refundType = "policy"
           THEN calculateRefund(booking.price, booking.check_in,
                                booking.advance, NoCustom, today).refundAmount
           ELSE ParseCustom(customRefundAmount)
         refundAmount == IF asked > booking.advance THEN booking.advance ELSE asked
     IN IF booking.id \in DOMAIN bookings
        THEN UpdateRow(booking.id,
               [bookings[booking.id] EXCEPT
                  !.status = "Cancelled", !.refund_amount = refundAmount,
                  !.checkout_payable = 0, !.pending_amount = 0,
                  !.revenue = booking.advance - refundAmount,
                  !.advance = booking.advance - refundAmount,
                  !.vat_amount = 0])
        ELSE UNCHANGED storeVars
  /\ UNCHANGED <<build, formVars, probe, auth, allBookings>>

\* processRefund on the booking the refund dialog was opened for
processRefund(booking, refundType, customRefundAmount, today) ==
  /\ build = "multi"
  /\ OnScreen(booking)
  /\ booking.status = "Confirmed"
  /\ LET refundAmount ==
           IF refundType = "policy"
           THEN calculateRefund(booking.price, booking.check_in,
                                booking.advance, NoCustom, today).refundAmount
           ELSE ParseCustom(customRefundAmount)
         newRevenue       == booking.advance - refundAmount
         advanceCollected == booking.advance - refundAmount
     IN IF booking.id \in DOMAIN bookings
        THEN UpdateRow(booking.id,
               [bookings[booking.id] EXCEPT
                  !.status = "Cancelled", !.refund_amount = refundAmount,
                  !.checkout_payable = 0, !.pending_amount = 0,
                  !.revenue = newRevenue, !.advance = advanceCollected,
                  !.vat_amount = 0])
        ELSE UNCHANGED storeVars
  /\ UNCHANGED <<build, formVars, probe, auth, allBookings>>

\* a checkout that marks the booking Paid
handleCheckoutPaid(booking) ==
  /\ build = "multi"
  /\ OnScreen(booking)
  /\ booking.status = "Confirmed"
  /\ IF booking.id \in DOMAIN bookings
     THEN UpdateRow(booking.id,
            [bookings[booking.id] EXCEPT
               !.status = "Paid", !.advance = booking.price,
               !.checkout_payable = 0, !.pending_amount = 0,
               !.revenue = booking.revenue + booking.checkout_payable])
     ELSE UNCHANGED storeVars
  /\ UNCHANGED <<build, formVars, probe, auth, allBookings>>

\* a checkout that leaves the revenue as it was
handleCheckoutKeepRevenue(booking) ==
  /\ build = "multi"
  /\ OnScreen(booking)
  /\ booking.status = "Confirmed"
  /\ IF booking.id \in DOMAIN bookings
     THEN UpdateRow(booking.id,
            [bookings[booking.id] EXCEPT
               !.status = "Checked-out", !.advance = booking.price,
               !.checkout_payable = 0, !.pending_amount = 0])
     ELSE UNCHANGED storeVars
  /\ UNCHANGED <<build, formVars, probe, auth, allBookings>>

\* a checkout that also removes the room entries of the reservation
handleCheckoutReleaseRooms(booking) ==
  /\ build = "multi"
  /\ OnScreen(booking)
  /\ booking.status = "Confirmed"
  /\ IF booking.id \in DOMAIN bookings
     THEN /\ bookings' =
               [bookings EXCEPT ![booking.id] =
                  Stored([bookings[booking.id] EXCEPT
                            !.status = "Checked-out", !.advance = booking.price,
                            !.checkout_payable = 0, !.pending_amount = 0,
                            !.revenue = booking.revenue + booking.checkout_payable])]
          /\ booking_rooms' = {r \in booking_rooms : r.booking_id # booking.id}
          /\ UNCHANGED nextId
     ELSE UNCHANGED storeVars
  /\ UNCHANGED <<build, formVars, probe, auth, allBookings>>

\* handleCheckout, confirmed, on a booking of the list
handleCheckout(booking) ==
  /\ build = "multi"
  /\ OnScreen(booking)
  /\ booking.status = "Confirmed"
  /\ IF booking.id \in DOMAIN bookings
     THEN UpdateRow(booking.id,
            [bookings[booking.id] EXCEPT
               !.status = "Checked-out", !.advance = booking.price,
               !.checkout_payable = 0, !.pending_amount = 0,
               !.revenue = booking.revenue + booking.checkout_payable])
     ELSE UNCHANGED storeVars
  /\ UNCHANGED <<build, formVars, probe, auth, allBookings>>

\* handleDelete of the earlier list: deletes the booking
legacyHandleDelete(id, deleteOk) ==
  /\ build = "single"
  /\ id \in DOMAIN bookings
  /\ bookings' = IF deleteOk
                 THEN [i \in DOMAIN bookings \ {id} |-> bookings[i]]
                 ELSE bookings
  /\ UNCHANGED <<booking_rooms, nextId, build, formVars, probe, auth, allBookings>>

\* processRefund of the earlier list, offered for every booking that is not
\* Cancelled: writes the status and the refund only
legacyProcessRefund(booking, refundType, customRefundAmount, today) ==
  /\ build = "single"
  /\ OnScreen(booking)
  /\ booking.status # "Cancelled"
  /\ LET refundAmount ==
           IF refundType = "policy"
           THEN calculateRefund(booking.price, booking.check_in,
                                booking.advance, NoCustom, today).refundAmount
           ELSE ParseCustom(customRefundAmount)
     IN IF booking.id \in DOMAIN bookings
        THEN UpdateRow(booking.id,
               [bookings[booking.id] EXCEPT
                  !.status = "Cancelled", !.refund_amount = refundAmount])
        ELSE UNCHANGED storeVars
  /\ UNCHANGED <<build, formVars, probe, auth, allBookings>>

\* saveEdit of the inline editor: writes the status chosen in the select
saveEdit(booking, status) ==
  /\ build = "single"
  /\ OnScreen(booking)
  /\ IF booking.id \in DOMAIN bookings
     THEN UpdateRow(booking.id, [bookings[booking.id] EXCEPT !.status = status])
     ELSE UNCHANGED storeVars
  /\ UNCHANGED <<build, formVars, probe, auth, allBookings>>

\* handleStatusChange of the status drop-down
handleStatusChange(booking, newStatus) ==
  /\ build = "single"
  /\ OnScreen(booking)
  /\ IF booking.id \in DOMAIN bookings
     THEN UpdateRow(booking.id,
            IF newStatus = "Checked-out"
            THEN [bookings[booking.id] EXCEPT !.status = newStatus,
                                              !.advance = booking.price]
            ELSE [bookings[booking.id] EXCEPT !.status = newStatus])
     ELSE UNCHANGED storeVars
  /\ UNCHANGED <<build, formVars, probe, auth, allBookings>>

---------------------------------------------------------------------------
(* Authentication: useAuth and ProtectedRoute *)

ADMIN_EMAIL == "admin@resort"        \* import.meta.env.VITE_ADMIN_EMAIL
OtherEmail  == "guest@elsewhere"     \* a user of the auth service who is no admin
Emails      == {ADMIN_EMAIL, OtherEmail}
NoUser      == "null"

\* session: the user of the auth session (NoUser: signed out)
\* mounted, user, isAdmin, loading: ProtectedRoute and the state of its useAuth
\* getUser: the answer of checkAuth's getUser on its way ("idle": none)
\* signIn, email, error, returned: the position of signIn of the sign-in
\* page, its argument, the error it set and what it returned
NoAuth ==
  [session |-> NoUser, mounted |-> FALSE, user |-> NoUser, isAdmin |-> FALSE,
   loading |-> TRUE, getUser |-> "idle", signIn |-> "idle", email |-> NoUser,
   error |-> "null", returned |-> "none"]

\* the handler given to onAuthStateChange, on the session handed to it
onAuthStateChange(a, session) ==
  IF ~a.mounted THEN a
  ELSE IF session # NoUser
  THEN [a EXCEPT !.user = session, !.isAdmin = (session = ADMIN_EMAIL)]
  ELSE [a EXCEPT !.user = NoUser, !.isAdmin = FALSE]

\* the auth client changes the session and notifies the subscribers
SetSession(a, session) == onAuthStateChange([a EXCEPT !.session = session], session)

\* what ProtectedRoute returns
ProtectedRoute(a) ==
  IF ~a.mounted THEN "nothing"
  ELSE IF a.loading THEN "spinner"
  ELSE IF a.user = NoUser THEN "Please sign in to access this page"
  ELSE IF ~a.isAdmin THEN "You do not have permission to access this page"
  ELSE "children"

\* a protected page is opened: useAuth starts with its initial state, the
\* effect calls checkAuth, whose getUser is answered with the user of the
\* session, with an error or not within the 5 seconds
Mount(answered) ==
  /\ ~auth.mounted
  /\ auth' = [auth EXCEPT !.mounted = TRUE, !.user = NoUser, !.isAdmin = FALSE,
                          !.loading = TRUE,
                          !.getUser = IF answered THEN auth.session ELSE "error"]
  /\ UNCHANGED <<storeVars, build, formVars, probe, allBookings>>

\* the page is left: isMounted = false, the subscription ends
Unmount ==
  /\ auth.mounted
  /\ auth' = [auth EXCEPT !.mounted = FALSE, !.user = NoUser, !.isAdmin = FALSE,
                          !.loading = TRUE, !.getUser = "idle"]
  /\ UNCHANGED <<storeVars, build, formVars, probe, allBookings>>

\* checkAuth after the await
checkAuth ==
  /\ auth.mounted
  /\ auth.getUser # "idle"
  /\ auth' = IF auth.getUser = "error"
             THEN [auth EXCEPT !.loading = FALSE, !.getUser = "idle"]
             ELSE IF auth.getUser # NoUser
             THEN [auth EXCEPT !.user = auth.getUser,
                               !.isAdmin = (auth.getUser = ADMIN_EMAIL),
                               !.loading = FALSE, !.getUser = "idle"]
             ELSE [auth EXCEPT !.loading = FALSE, !.getUser = "idle"]
  /\ UNCHANGED <<storeVars, build, formVars, probe, allBookings>>

\* an event of the auth client that carries the current session
\* (INITIAL_SESSION, TOKEN_REFRESHED)
SessionEvent ==
  /\ auth.mounted
  /\ auth' = onAuthStateChange(auth, auth.session)
  /\ UNCHANGED <<storeVars, build, formVars, probe, allBookings>>

\* signIn up to the await of signInWithPassword; the sign-in form is on the
\* page at '/', which is no protected page
SignInCall(email) ==
  /\ auth.signIn = "idle"
  /\ ~auth.mounted
  /\ auth' = [auth EXCEPT !.signIn = "signInWithPassword", !.email = email,
                          !.error = "null", !.returned = "none"]
  /\ UNCHANGED <<storeVars, build, formVars, probe, allBookings>>

\* signIn from the answer of signInWithPassword to its return or to the await
\* of signOut (accepted = FALSE: wrong password or no answer)
SignInAnswer(accepted) ==
  /\ auth.signIn = "signInWithPassword"
  /\ auth' = IF ~accepted
             THEN [auth EXCEPT !.signIn = "idle", !.error = "message",
                               !.returned = "error"]
             ELSE IF auth.email # ADMIN_EMAIL
             THEN [SetSession(auth, auth.email) EXCEPT !.signIn = "signOut"]
             ELSE [SetSession(auth, auth.email) EXCEPT !.signIn = "idle",
                                                       !.returned = "user"]
  /\ UNCHANGED <<storeVars, build, formVars, probe, allBookings>>

\* signIn from the answer of signOut to its return; the answer is not looked at
\* (signedOut = FALSE: the request failed and the session is kept)
SignInSignOutAnswer(signedOut) ==
  /\ auth.signIn = "signOut"
  /\ auth' = [(IF signedOut THEN SetSession(auth, NoUser) ELSE auth)
                EXCEPT !.signIn = "idle", !.error = "Unauthorized",
                       !.returned = "error"]
  /\ UNCHANGED <<storeVars, build, formVars, probe, allBookings>>

\* signOut of the navigation bar
signOut(signedOut) ==
  /\ auth.session # NoUser
  /\ auth' = IF signedOut THEN SetSession(auth, NoUser) ELSE auth
  /\ UNCHANGED <<storeVars, build, formVars, probe, allBookings>>

---------------------------------------------------------------------------
(* Inputs of the handlers *)

ValidRanges == {r \in Days \X Days : r[1] < r[2]}

SingleForm(r, i, o) == [BaseForm EXCEPT !.room_id = r, !.check_in = i, !.check_out = o]

MultiForm(i, o, rb) ==
  [BaseForm EXCEPT !.bookingType = "multi", !.room_id = NoRoom,
                   !.check_in = i, !.check_out = o, !.roomBookings = rb]

\* single-room forms over every room and date pair, valid or not
DateForms == {SingleForm(r, i, o) : r \in Rooms \cup {NoRoom}, i \in Days, o \in Days}

\* single-room forms over prices, advances and the VAT box
MoneyForms ==
  {[BaseForm EXCEPT !.price = p, !.advance = a, !.vat_applicable = v] :
     p \in {500 * Taka, 123 * Taka + 45 * Cent},
     a \in {200 * Taka, 33 * Taka + 33 * Cent},
     v \in BOOLEAN}
  \cup {MultiForm(0, MaxDay, <<StayInput("B", 0, 1)>>)}
  \cup {[BaseForm EXCEPT !.price = 1 * Taka + 10 * Cent, !.advance = 0,
                          !.vat_applicable = FALSE]}

Stays ==
  {StayInput(r, d[1], d[2]) : r \in Rooms, d \in ValidRanges}
  \cup {StayInput(NoRoom, 0, 1), StayInput("A", 1, 1), StayInput("B", MaxDay, 0)}

StaySeqs == UNION {[1 .. n -> Stays] : n \in 0 .. MaxStays}

\* multi-room forms over every list of room entries, valid or not
MultiForms ==
  {MultiForm(0, MaxDay, rb) : rb \in StaySeqs}
  \cup {MultiForm(1, 1, <<StayInput("A", 0, 1)>>)}

\* the forms two operators submit at the same time
RaceForms ==
  {SingleForm("A", d[1], d[2]) : d \in ValidRanges}
  \cup {MultiForm(0, MaxDay, <<StayInput("A", 0, 1)>>), EmptyForm}

\* the forms behind the reservations of the booking lists
ListForms ==
  {SingleForm("A", 0, 1), MultiForm(0, MaxDay, <<StayInput("B", 0, 1)>>)}

\* days between the day of the cancellation and check-in
DaysUntil == {0, 3, 4, 7}

\* contents of the custom refund field (NoCustom: left empty)
CustomAmounts == {NoCustom, 50 * Taka, 10 * Taka + 557, 300 * Taka}

---------------------------------------------------------------------------
(* Specifications *)

NoProbe == [fn |-> "none"]

Init ==
  /\ bookings = <<>>
  /\ booking_rooms = {}
  /\ nextId = 1
  /\ build = "single"
  /\ pc = [s \in Sessions |-> "idle"]
  /\ formData = [s \in Sessions |-> EmptyForm]
  /\ latestBookings = [s \in Sessions |-> <<>>]
  /\ createdBooking = [s \in Sessions |-> 0]
  /\ outcome = [s \in Sessions |-> "none"]
  /\ auth = NoAuth
  /\ allBookings = [o \in Operators |-> {}]
  /\ probe = NoProbe

\* no submission is under way
Quiet == \A s \in Sessions : pc[s] = "idle"

\* the deployment of the multi-room build: migration (booking_rooms table,
\* room_id nullable), then the redesigned form and list replace the earlier ones
Deploy ==
  /\ build = "single"
  /\ Quiet
  /\ build' = "multi"
  /\ UNCHANGED <<storeVars, formVars, probe, auth, allBookings>>

\* handleSubmit of session s on one of the forms F
Submit(s, F) ==
  \/ \E f \in F, fetchOk \in BOOLEAN : SubmitFetch(s, f, fetchOk)
  \/ \E insertOk \in BOOLEAN : SubmitInsert(s, insertOk)
  \/ \E roomsOk \in BOOLEAN : SubmitInsertRooms(s, roomsOk)

LegacySubmit(s, F) ==
  \/ \E f \in F, fetchOk \in BOOLEAN : LegacySubmitFetch(s, f, fetchOk)
  \/ \E insertOk \in BOOLEAN : LegacySubmitInsert(s, insertOk)

Cancel(D, C) ==
  \E booking \in Listed, d \in D :
    \/ processRefund(booking, "policy", NoCustom, booking.check_in - d)
    \/ \E customRefundAmount \in C :
         processRefund(booking, "custom", customRefundAmount, booking.check_in - d)

LegacyCancel(D, C) ==
  \E booking \in Listed, d \in D :
    \/ legacyProcessRefund(booking, "policy", NoCustom, booking.check_in - d)
    \/ \E customRefundAmount \in C :
         legacyProcessRefund(booking, "custom", customRefundAmount,
                             booking.check_in - d)

Checkout == \E booking \in Listed : handleCheckout(booking)

\* checkout and cancellation of a row of the list operator o has on screen
ListCheckout(o) == \E booking \in allBookings[o] : handleCheckout(booking)

ListCancel(o, D, C) ==
  \E booking \in allBookings[o], d \in D :
    \/ processRefund(booking, "policy", NoCustom, booking.check_in - d)
    \/ \E customRefundAmount \in C :
         processRefund(booking, "custom", customRefundAmount, booking.check_in - d)

Delete ==
  \E id \in Ids, roomsDeleteOk \in BOOLEAN, deleteOk \in BOOLEAN :
    handleDelete(id, roomsDeleteOk, deleteOk)

LegacyDelete == \E id \in Ids, deleteOk \in BOOLEAN : legacyHandleDelete(id, deleteOk)

Edit ==
  \/ \E booking \in Listed, status \in Status : saveEdit(booking, status)
  \/ \E booking \in Listed, newStatus \in {"Confirmed", "Paid", "Checked-out"} :
       handleStatusChange(booking, newStatus)

\* every handler, two booking forms open at the same time
Next ==
  \/ \E s \in Sessions : Submit(s, RaceForms)
  \/ \E s \in Sessions : LegacySubmit(s, RaceForms)
  \/ Cancel({7}, {NoCustom})
  \/ LegacyCancel({7}, {NoCustom})
  \/ Checkout
  \/ Delete
  \/ LegacyDelete
  \/ Edit
  \/ Deploy

Spec == Init /\ [][Next]_vars

\* submissions, checkouts, cancellations and deletions, one at a time
NextSeq ==
  \/ Submit(1, DateForms \cup MultiForms)
  \/ LegacySubmit(1, DateForms)
  \/ Quiet /\ Cancel({7}, {NoCustom})
  \/ Quiet /\ LegacyCancel({7}, {NoCustom})
  \/ Quiet /\ Checkout
  \/ Quiet /\ Delete
  \/ Quiet /\ LegacyDelete
  \/ Deploy

SpecSeq == Init /\ [][NextSeq]_vars

\* two booking forms open at the same time, checkouts, cancellations and
\* deletions; the status editors of the booking list are left out
NextRace ==
  \/ \E s \in Sessions : Submit(s, RaceForms)
  \/ \E s \in Sessions : LegacySubmit(s, RaceForms)
  \/ Cancel({7}, {NoCustom})
  \/ LegacyCancel({7}, {NoCustom})
  \/ Checkout
  \/ Delete
  \/ LegacyDelete
  \/ Deploy

SpecRace == Init /\ [][NextRace]_vars

\* one form over prices and advances, cancellations over every refund tier
\* and every custom amount, checkouts
NextMoney ==
  \/ Submit(1, MoneyForms)
  \/ LegacySubmit(1, MoneyForms)
  \/ Quiet /\ Cancel(DaysUntil, CustomAmounts)
  \/ Quiet /\ LegacyCancel(DaysUntil, CustomAmounts)
  \/ Quiet /\ Checkout
  \/ Deploy

SpecMoney == Init /\ [][NextMoney]_vars

\* reservations as the checkers receive them
PoolStays == {<<r, d[1], d[2]>> : r \in Rooms, d \in ValidRanges}

PoolStaySeqs == UNION {[1 .. n -> PoolStays] : n \in 0 .. MaxStays}

PoolRoom(st) == [room_id |-> st[1], check_in_date |-> st[2], check_out_date |-> st[3]]

PoolShapes ==
  {[status |-> st, room_id |-> c[1], check_in |-> c[2], check_out |-> c[3],
    booking_rooms |-> <<>>] : st \in Status, c \in PoolStays}
  \cup
  {[status |-> st, room_id |-> NullRoom, check_in |-> 0, check_out |-> MaxDay,
    booking_rooms |-> [i \in 1 .. Len(q) |-> PoolRoom(q[i])]] :
     st \in Status, q \in PoolStaySeqs}

\* pools of up to MaxPool reservations; the id of a reservation is its position
Pools ==
  UNION {{[k \in 1 .. n |->
             [id |-> k, status |-> sh[k].status, room_id |-> sh[k].room_id,
              check_in |-> sh[k].check_in, check_out |-> sh[k].check_out,
              booking_rooms |-> sh[k].booking_rooms]] :
            sh \in [1 .. n -> PoolShapes]} : n \in 0 .. MaxPool}

Candidates ==
  {[room_id |-> r, check_in |-> d[1], check_out |-> d[2]] :
     r \in Rooms \cup {NoRoom}, d \in ValidRanges}

CandidateSeqs == UNION {[1 .. n -> Candidates] : n \in 0 .. MaxCands}

\* the checkers called directly on every pool and every list of candidates
InitChecker ==
  /\ bookings = <<>>
  /\ booking_rooms = {}
  /\ nextId = 1
  /\ build = "multi"
  /\ pc = [s \in Sessions |-> "idle"]
  /\ formData = [s \in Sessions |-> EmptyForm]
  /\ latestBookings = [s \in Sessions |-> <<>>]
  /\ createdBooking = [s \in Sessions |-> 0]
  /\ outcome = [s \in Sessions |-> "none"]
  /\ auth = NoAuth
  /\ allBookings = [o \in Operators |-> {}]
  /\ \E pool \in Pools, cands \in CandidateSeqs :
       probe = [fn |-> "input", pool |-> pool, cands |-> cands,
                result |-> NoConflict]

CallCheckRoomConflict ==
  /\ probe.fn = "input"
  /\ Len(probe.cands) = 1
  /\ probe' = [probe EXCEPT !.fn = "checkRoomConflict",
                            !.result = checkRoomConflict(probe.cands[1], probe.pool)]
  /\ UNCHANGED <<storeVars, build, formVars, auth, allBookings>>

CallCheckMultiRoomConflict ==
  /\ probe.fn = "input"
  /\ probe' = [probe EXCEPT !.fn = "checkMultiRoomConflict",
                            !.result = checkMultiRoomConflict(probe.cands, probe.pool)]
  /\ UNCHANGED <<storeVars, build, formVars, auth, allBookings>>

NextChecker ==
  \/ CallCheckRoomConflict
  \/ CallCheckMultiRoomConflict

SpecChecker == InitChecker /\ [][NextChecker]_vars

\* two operators with a booking list each, fetched now and then, and one form
InitLists ==
  /\ bookings = <<>>
  /\ booking_rooms = {}
  /\ nextId = 1
  /\ build = "multi"
  /\ pc = [s \in Sessions |-> "idle"]
  /\ formData = [s \in Sessions |-> EmptyForm]
  /\ latestBookings = [s \in Sessions |-> <<>>]
  /\ createdBooking = [s \in Sessions |-> 0]
  /\ outcome = [s \in Sessions |-> "none"]
  /\ probe = NoProbe
  /\ auth = NoAuth
  /\ allBookings = [o \in Operators |-> {}]

NextLists ==
  \/ Submit(1, ListForms)
  \/ \E o \in Operators : fetchBookings(o)
  \/ \E o \in Operators : ListCheckout(o)
  \/ \E o \in Operators : ListCancel(o, {7}, {NoCustom})

SpecLists == InitLists /\ [][NextLists]_vars

\* sign-in attempts, sign-outs and visits of a protected page
InitAuth == Init

NextAuth ==
  \/ \E answered \in BOOLEAN : Mount(answered)
  \/ Unmount
  \/ checkAuth
  \/ SessionEvent
  \/ \E email \in Emails : SignInCall(email)
  \/ \E accepted \in BOOLEAN : SignInAnswer(accepted)
  \/ \E signedOut \in BOOLEAN : SignInSignOutAnswer(signedOut)
  \/ \E signedOut \in BOOLEAN : signOut(signedOut)

SpecAuth == InitAuth /\ [][NextAuth]_vars

\* arguments of the calculator functions
CalcPrices ==
  {0, 6 * Taka, 100 * Taka + 10 * Cent, 123 * Taka + 45 * Cent,
   5000 * Taka, 5500 * Taka}

CalcAdvances == {0, 200 * Taka, 2000 * Taka, 33 * Taka + 33 * Cent}

\* check-in on day CalcCheckIn, cancelled from 8 days before to the day after
CalcCheckIn == 8
CalcToday   == 0 .. 9

CalcLines ==
  {[room_id |-> "A", check_in_date |-> i, check_out_date |-> o,
    price_per_night |-> pr] :
     i \in Days, o \in Days,
     pr \in {5000 * Taka, 5500 * Taka, 100 * Taka + 10 * Cent}}

CalcLineSeqs == UNION {[1 .. n -> CalcLines] : n \in 0 .. MaxLines}

CalcAdjustments == {0, 10 * Taka}

\* totals, also finer than a cent (10.557, 1.005)
CalcTotals ==
  {0, 123 * Taka + 45 * Cent, 5125 * Taka, 10 * Taka + 557, 1 * Taka + 5}

\* instants of the date strings given to calculateNights: midnight and noon
\* of every day
CalcInstants ==
  {GetTime(d) + h : d \in Days, h \in {0, MsPerDay \div 2}}

CalcExtras    == {0, 50 * Taka, 2 * Cent + 5}
CalcDiscounts == {0, 20 * Taka, 6000 * Taka}

CalcInputs ==
  {[fn |-> "input", for |-> "calculateVAT", price |-> pr, isApplicable |-> a,
    result |-> 0] : pr \in CalcPrices, a \in BOOLEAN}
  \cup
  {[fn |-> "input", for |-> "calculateRefund", bookingPrice |-> 5000 * Taka,
    checkInDate |-> CalcCheckIn, advancePaid |-> a, customRefund |-> c,
    today |-> t, result |-> 0] :
     a \in CalcAdvances, c \in CustomAmounts, t \in CalcToday}
  \cup
  {[fn |-> "input", for |-> "calculateMultiRoomTotal", roomBookings |-> rb,
    vatApplicable |-> a, vatAdjustment |-> adj, result |-> 0] :
     rb \in CalcLineSeqs, a \in BOOLEAN, adj \in CalcAdjustments}
  \cup
  {[fn |-> "input", for |-> "calculateCheckoutPayable", totalPrice |-> t,
    advance |-> a, extraIncome |-> e, discount |-> d, result |-> 0] :
     t \in CalcTotals, a \in CalcAdvances, e \in CalcExtras, d \in CalcDiscounts}
  \cup
  {[fn |-> "input", for |-> "calculateNights", checkIn |-> i, checkOut |-> o,
    result |-> 0] : i \in CalcInstants, o \in CalcInstants}

\* the calculator functions called directly on every argument
InitCalc ==
  /\ bookings = <<>>
  /\ booking_rooms = {}
  /\ nextId = 1
  /\ build = "multi"
  /\ pc = [s \in Sessions |-> "idle"]
  /\ formData = [s \in Sessions |-> EmptyForm]
  /\ latestBookings = [s \in Sessions |-> <<>>]
  /\ createdBooking = [s \in Sessions |-> 0]
  /\ outcome = [s \in Sessions |-> "none"]
  /\ auth = NoAuth
  /\ allBookings = [o \in Operators |-> {}]
  /\ probe \in CalcInputs

CallCalculateVAT ==
  /\ probe.fn = "input"
  /\ probe.for = "calculateVAT"
  /\ probe' = [probe EXCEPT !.fn = "calculateVAT",
                            !.result = calculateVAT(probe.price, probe.isApplicable)]
  /\ UNCHANGED <<storeVars, build, formVars, auth, allBookings>>

CallCalculateRefund ==
  /\ probe.fn = "input"
  /\ probe.for = "calculateRefund"
  /\ probe' = [probe EXCEPT !.fn = "calculateRefund",
                            !.result = calculateRefund(probe.bookingPrice,
                                         probe.checkInDate, probe.advancePaid,
                                         probe.customRefund, probe.today)]
  /\ UNCHANGED <<storeVars, build, formVars, auth, allBookings>>

CallCalculateMultiRoomTotal ==
  /\ probe.fn = "input"
  /\ probe.for = "calculateMultiRoomTotal"
  /\ probe' = [probe EXCEPT !.fn = "calculateMultiRoomTotal",
                            !.result = calculateMultiRoomTotal(probe.roomBookings,
                                         probe.vatApplicable, probe.vatAdjustment)]
  /\ UNCHANGED <<storeVars, build, formVars, auth, allBookings>>

CallCalculateCheckoutPayable ==
  /\ probe.fn = "input"
  /\ probe.for = "calculateCheckoutPayable"
  /\ probe' = [probe EXCEPT !.fn = "calculateCheckoutPayable",
                            !.result = calculateCheckoutPayable(probe.totalPrice,
                                         probe.advance, probe.extraIncome,
                                         probe.discount)]
  /\ UNCHANGED <<storeVars, build, formVars, auth, allBookings>>

CallCalculateNights ==
  /\ probe.fn = "input"
  /\ probe.for = "calculateNights"
  /\ probe' = [probe EXCEPT !.fn = "calculateNights",
                            !.result = calculateNights(probe.checkIn, probe.checkOut)]
  /\ UNCHANGED <<storeVars, build, formVars, auth, allBookings>>

CallCalculateNightsOfBookingUtils ==
  /\ probe.fn = "input"
  /\ probe.for = "calculateNights"
  /\ probe' = [probe EXCEPT !.fn = "calculateNightsOfBookingUtils",
                            !.result = calculateNightsOfBookingUtils(probe.checkIn,
                                                                     probe.checkOut)]
  /\ UNCHANGED <<storeVars, build, formVars, auth, allBookings>>

NextCalc ==
  \/ CallCalculateNights
  \/ CallCalculateNightsOfBookingUtils
  \/ CallCalculateCheckoutPayable
  \/ CallCalculateVAT
  \/ CallCalculateRefund
  \/ CallCalculateMultiRoomTotal

SpecCalc == InitCalc /\ [][NextCalc]_vars

---------------------------------------------------------------------------
(* Properties of the store *)

Active(id) == bookings[id].status \in {"Confirmed", "Paid"}

Released(id) == bookings[id].status \in {"Cancelled", "Checked-out"}

\* the rooms and date ranges a stored reservation claims
Claims(id) ==
  (IF bookings[id].room_id # NullRoom
   THEN {<<bookings[id].room_id, bookings[id].check_in, bookings[id].check_out>>}
   ELSE {})
  \cup {<<r.room_id, r.check_in_date, r.check_out_date>> :
          r \in {q \in booking_rooms : q.booking_id = id}}

\* two claims on the same room with a.check_in < b.check_out and
\* a.check_out > b.check_in
ClaimHits(ca, cb) == ca[1] = cb[1] /\ ca[2] < cb[3] /\ ca[3] > cb[2]

ClaimsOverlap(a, b) == \E ca \in Claims(a), cb \in Claims(b) : ClaimHits(ca, cb)

\* C1: with submissions, checkouts, cancellations and deletions executed one
\* at a time, no two distinct Confirmed or Paid reservations claim the same
\* room, through room_id or a room entry, on overlapping date ranges.
NoDoubleBooking ==
  \A a \in DOMAIN bookings, b \in DOMAIN bookings :
    (a # b /\ Active(a) /\ Active(b)) => ~ClaimsOverlap(a, b)

\* two active reservations share a room back to back, one of them through a
\* room entry and the other through room_id
NoDoubleBookingWitness ==
  /\ outcome[1] = "success"
  /\ \E a \in DOMAIN bookings, b \in DOMAIN bookings :
       /\ a # b /\ Active(a) /\ Active(b)
       /\ bookings[a].room_id = NullRoom /\ bookings[b].room_id # NullRoom
       /\ \E ca \in Claims(a), cb \in Claims(b) : ca[1] = cb[1] /\ ca[3] = cb[2]

\* the room entries stored for reservation id
StaysOf(id) == {r \in booking_rooms : r.booking_id = id}

\* C12: every stored reservation has either a room_id and no room entries, or
\* a null room_id and at least one room entry; never both and never neither.
RoomAssignmentEitherOr ==
  \A id \in DOMAIN bookings :
    \/ bookings[id].room_id # NullRoom /\ StaysOf(id) = {}
    \/ bookings[id].room_id = NullRoom /\ StaysOf(id) # {}

\* C14: every stored room entry belongs to a reservation that is in the store,
\* and the step that deletes a reservation leaves none of its room entries.
NoOrphanRoomEntries ==
  /\ [](\A r \in booking_rooms : r.booking_id \in DOMAIN bookings)
  /\ [][\A id \in DOMAIN bookings :
          id \notin DOMAIN bookings' => \A r \in booking_rooms' : r.booking_id # id]_vars

\* a multi-room reservation was stored with its room entries and deleted: a
\* later reservation holds room entries while the store has handed out an
\* earlier id that is gone, and no entry of it is left
NoOrphanRoomEntriesWitness ==
  /\ booking_rooms # {}
  /\ \E id \in 1 .. nextId - 1 :
       /\ id \notin DOMAIN bookings
       /\ \E later \in DOMAIN bookings : later > id /\ StaysOf(later) # {}

\* every stored reservation and every stored room entry ends after it starts
DatesOrdered ==
  /\ \A id \in DOMAIN bookings : bookings[id].check_in < bookings[id].check_out
  /\ \A r \in booking_rooms : r.check_in_date < r.check_out_date

\* the dates of a form, and of each of its room entries, are in order
FormOrdered(f) ==
  /\ f.check_in < f.check_out
  /\ f.bookingType = "multi"
       => \A i \in 1 .. Len(f.roomBookings) :
            f.roomBookings[i].check_in_date < f.roomBookings[i].check_out_date

\* C13: every stored reservation has check_in < check_out and every stored
\* room entry check_in_date < check_out_date; a submission whose dates, or the
\* dates of one of its room entries, are not in that order ends as invalid
\* with the store unchanged, and only forms with ordered dates go on to the
\* re-fetch.
OrderedDatesOnly ==
  /\ []DatesOrdered
  /\ [][/\ \A f \in DateForms \cup MultiForms, fetchOk \in BOOLEAN :
            ((SubmitFetch(1, f, fetchOk) \/ LegacySubmitFetch(1, f, fetchOk))
               /\ ~FormOrdered(f))
              => /\ outcome'[1] = "invalid"
                 /\ UNCHANGED <<storeVars, pc, formData, latestBookings>>
        /\ (pc[1] = "idle" /\ pc'[1] = "fetched") => FormOrdered(formData'[1])]_vars

\* a multi-room reservation with its room entries is stored and the form's
\* last submission was turned down by the validation
OrderedDatesOnlyWitness ==
  /\ pc[1] = "idle"
  /\ outcome[1] = "invalid"
  /\ \E id \in DOMAIN bookings :
       /\ bookings[id].room_id = NullRoom
       /\ StaysOf(id) # {}
       /\ \A r \in StaysOf(id) : r.check_in_date < r.check_out_date

---------------------------------------------------------------------------
(* Properties of a submission *)

\* the rooms and date ranges a submitted form asks for
FormClaims(f) ==
  IF f.bookingType = "multi"
  THEN {<<f.roomBookings[i].room_id, f.roomBookings[i].check_in_date,
          f.roomBookings[i].check_out_date>> : i \in 1 .. Len(f.roomBookings)}
  ELSE {<<f.room_id, f.check_in, f.check_out>>}

\* the claims of a reservation as a snapshot or a pool shows it
ShownClaims(b) ==
  (IF b.room_id # NullRoom THEN {<<b.room_id, b.check_in, b.check_out>>} ELSE {})
  \cup {<<b.booking_rooms[i].room_id, b.booking_rooms[i].check_in_date,
          b.booking_rooms[i].check_out_date>> : i \in 1 .. Len(b.booking_rooms)}

ShownActive(b) == b.status \in {"Confirmed", "Paid"}

\* the snapshot of session s holds an active reservation that overlaps its form
SnapshotBlocked(s) ==
  \E k \in 1 .. Len(latestBookings[s]) :
    /\ ShownActive(latestBookings[s][k])
    /\ \E ca \in FormClaims(formData[s]), cb \in ShownClaims(latestBookings[s][k]) :
         ClaimHits(ca, cb)

FormOverlapsRow(f, id) ==
  \E ca \in FormClaims(f), cb \in Claims(id) : ClaimHits(ca, cb)

\* session s takes the step from its re-fetch to the end of its insert
InsertStep(s) == pc[s] = "fetched" /\ pc'[s] # "fetched"

\* the store answered the insert of session s with an error
StoreRefused(s) == pc'[s] = "idle" /\ outcome'[s] = "error"

\* the step of session s stored its reservation, Confirmed, with the room and
\* dates of the form
Persisted(s) ==
  /\ nextId' = nextId + 1
  /\ nextId \in DOMAIN bookings'
  /\ bookings'[nextId].status = "Confirmed"
  /\ bookings'[nextId].check_in = formData[s].check_in
  /\ bookings'[nextId].check_out = formData[s].check_out
  /\ IF formData[s].bookingType = "multi"
     THEN bookings'[nextId].room_id = NullRoom /\ pc'[s] = "rooms"
     ELSE bookings'[nextId].room_id = formData[s].room_id
          /\ pc'[s] = "idle" /\ outcome'[s] = "success"

\* the room entries of a multi-room submission are stored by its last step
RoomsPersisted(s) ==
  (pc[s] = "rooms" /\ pc'[s] = "idle" /\ outcome'[s] = "success")
    => \A c \in FormClaims(formData[s]) :
         \E r \in booking_rooms' :
           /\ r.booking_id = createdBooking[s]
           /\ <<r.room_id, r.check_in_date, r.check_out_date>> = c

\* session s re-fetched before an overlapping active reservation was inserted
RacedBy(s) ==
  \E id \in DOMAIN bookings :
    /\ Active(id)
    /\ FormOverlapsRow(formData[s], id)
    /\ \A k \in 1 .. Len(latestBookings[s]) : latestBookings[s][k].id # id

\* C2: when two overlapping submissions for one room both re-fetch before
\* either inserts, the one that inserts second still passes the availability
\* check, which reads its own re-fetch, and is persisted as a Confirmed
\* reservation next to the first, unless the store refuses the insert.
RaceBothPersisted ==
  [][\A s \in Sessions :
       /\ (InsertStep(s) /\ RacedBy(s) /\ ~SnapshotBlocked(s) /\ ~StoreRefused(s))
            => Persisted(s)
       /\ RoomsPersisted(s)]_vars

\* both forms ended with success and left two Confirmed reservations that
\* overlap on one room
RaceBothPersistedWitness ==
  /\ outcome[1] = "success" /\ outcome[2] = "success"
  /\ \E a \in DOMAIN bookings, b \in DOMAIN bookings :
       /\ a # b
       /\ bookings[a].status = "Confirmed" /\ bookings[b].status = "Confirmed"
       /\ ClaimsOverlap(a, b)

\* C6: a multi-room submission whose insert of the room entries fails leaves
\* no reservation row of that submission in the store.
MultiRoomAllOrNothing ==
  [][\A s \in Sessions :
       (pc[s] = "rooms" /\ pc'[s] = "idle" /\ outcome'[s] = "error")
         => createdBooking[s] \notin DOMAIN bookings']_vars

\* C8: after a reservation on room r was cancelled or checked out, a
\* submission for r on dates overlapping it, with no Confirmed or Paid
\* reservation overlapping it on r, is accepted and persisted unless the store
\* refuses the insert.
ReleasedRoomBookable ==
  [][(/\ InsertStep(1)
      /\ \E id \in DOMAIN bookings :
           Released(id) /\ FormOverlapsRow(formData[1], id)
      /\ \A id \in DOMAIN bookings :
           Active(id) => ~FormOverlapsRow(formData[1], id)
      /\ ~StoreRefused(1))
       => Persisted(1)]_vars

\* a Confirmed reservation stands on the room and dates of an earlier
\* reservation that was cancelled or checked out
ReleasedRoomBookableWitness ==
  /\ outcome[1] = "success"
  /\ \E a \in DOMAIN bookings, b \in DOMAIN bookings :
       /\ a < b /\ Released(a) /\ bookings[b].status = "Confirmed"
       /\ ClaimsOverlap(a, b)

\* C9: a submission whose availability check reports a conflict ends without
\* an exception, with the conflict as its result and the store unchanged, and
\* a later submission from the same form that meets no conflict is persisted.
ConflictIsNotFatal ==
  [][\A s \in Sessions :
       /\ (InsertStep(s) /\ SnapshotBlocked(s))
            => /\ UNCHANGED storeVars
               /\ pc'[s] = "idle"
               /\ outcome'[s] = "conflict"
       /\ (InsertStep(s) /\ outcome[s] = "conflict" /\ ~SnapshotBlocked(s)
             /\ ~StoreRefused(s))
            => Persisted(s)]_vars

\* a form whose last submission met a conflict has had its next submission
\* accepted: the reservation row is in the store
ConflictIsNotFatalWitness ==
  \E s \in Sessions :
    /\ pc[s] = "rooms"
    /\ outcome[s] = "conflict"
    /\ createdBooking[s] \in DOMAIN bookings

---------------------------------------------------------------------------
(* Properties of the status and of a cancellation *)

StatusChanged(id) ==
  /\ id \in DOMAIN bookings
  /\ id \in DOMAIN bookings'
  /\ bookings'[id].status # bookings[id].status

CreatedConfirmed ==
  \A id \in DOMAIN bookings' \ DOMAIN bookings : bookings'[id].status = "Confirmed"

\* C7, as stated: a reservation is created Confirmed and its status changes
\* only to Checked-out, by checkout, or to Cancelled, by cancellation.
StatusOnlyByCheckoutOrCancel ==
  [][/\ CreatedConfirmed
     /\ \A id \in Ids :
          StatusChanged(id)
            => /\ bookings[id].status = "Confirmed"
               /\ bookings'[id].status \in {"Checked-out", "Cancelled"}
               /\ bookings'[id].checkout_payable = 0
               /\ bookings'[id].pending_amount = 0]_vars

\* C7, amended: a reservation is created Confirmed; under the multi-room build
\* its status changes only to Checked-out or Cancelled, by checkout or
\* cancellation; under the single-room build the status editors of
\* the booking list and its cancellation set it, to any of the four statuses,
\* in a step that touches no other reservation; submissions, deletions and the
\* deployment leave every status alone.
StatusWrites ==
  [][/\ CreatedConfirmed
     /\ \A id \in Ids :
          StatusChanged(id)
            => \/ /\ build = "multi"
                  /\ bookings'[id].status \in {"Checked-out", "Cancelled"}
                  /\ bookings'[id].checkout_payable = 0
                  /\ bookings'[id].pending_amount = 0
               \/ /\ build = "single"
                  /\ bookings'[id].status \in Status
                  /\ UNCHANGED <<booking_rooms, nextId, build, formVars>>
                  /\ \A other \in DOMAIN bookings \ {id} :
                       other \in DOMAIN bookings'
                       /\ bookings'[other] = bookings[other]]_vars

\* a reservation is Paid, a status only the status editors write
StatusWritesWitness ==
  \E id \in DOMAIN bookings : bookings[id].status = "Paid"

\* C10: a cancellation (processRefund of the current list) sets status
\* Cancelled, refund_amount to the refund the calculator returns,
\* checkout_payable, pending_amount and vat_amount to 0, and revenue and
\* advance to the advance before it minus refund_amount.
CancellationEffects ==
  [][\A id \in Ids :
       (StatusChanged(id) /\ build = "multi" /\ bookings'[id].status = "Cancelled")
         => /\ \E d \in DaysUntil, c \in CustomAmounts :
                 bookings'[id].refund_amount =
                   calculateRefund(bookings[id].price, bookings[id].check_in,
                                   bookings[id].advance, c,
                                   bookings[id].check_in - d).refundAmount
            /\ bookings'[id].checkout_payable = 0
            /\ bookings'[id].pending_amount = 0
            /\ bookings'[id].vat_amount = 0
            /\ bookings'[id].revenue =
                 bookings[id].advance - bookings'[id].refund_amount
            /\ bookings'[id].advance =
                 bookings[id].advance - bookings'[id].refund_amount]_vars

\* C11: a checkout (handleCheckout of the current list) sets status
\* Checked-out, advance to the price of the reservation, checkout_payable and
\* pending_amount to 0, adds the checkout_payable the reservation had before
\* (the stored balance, which already carries extra income and discount) to
\* revenue, and leaves the other columns and the other reservations alone.
CheckoutEffects ==
  [][\A id \in Ids :
       (StatusChanged(id) /\ build = "multi" /\ bookings'[id].status = "Checked-out")
         => /\ bookings[id].status = "Confirmed"
            /\ bookings'[id] =
                 [bookings[id] EXCEPT
                    !.status = "Checked-out",
                    !.advance = bookings[id].price,
                    !.checkout_payable = 0,
                    !.pending_amount = 0,
                    !.revenue = bookings[id].revenue + bookings[id].checkout_payable]
            /\ \A other \in DOMAIN bookings \ {id} :
                 other \in DOMAIN bookings' /\ bookings'[other] = bookings[other]
            /\ UNCHANGED <<booking_rooms, nextId>>]_vars

\* a reservation with VAT and an advance below its price is checked out: its
\* revenue is the total price, above the advance it ends with
CheckoutEffectsWitness ==
  \E id \in DOMAIN bookings :
    /\ bookings[id].status = "Checked-out"
    /\ bookings[id].vat_amount > 0
    /\ bookings[id].advance = bookings[id].price
    /\ bookings[id].checkout_payable = 0
    /\ bookings[id].pending_amount = 0
    /\ bookings[id].revenue = bookings[id].price + bookings[id].vat_amount

---------------------------------------------------------------------------
(* Properties of the availability checker *)

Called == probe.fn \in {"checkRoomConflict", "checkMultiRoomConflict"}

\* pool reservation k is active and claims the room of candidate j on
\* overlapping dates
Blocks(k, j) ==
  /\ ShownActive(probe.pool[k])
  /\ probe.cands[j].room_id # NoRoom
  /\ \E cb \in ShownClaims(probe.pool[k]) :
       ClaimHits(<<probe.cands[j].room_id, probe.cands[j].check_in,
                   probe.cands[j].check_out>>, cb)

PoolIdx == 1 .. Len(probe.pool)
CandIdx == 1 .. Len(probe.cands)

\* C3: when an active reservation of the pool claims the room of a candidate
\* with a non-empty room id, through room_id or a room entry, on strictly
\* overlapping dates, both checkers return hasConflict = TRUE with a
\* reservation of the pool that blocks a candidate.
OverlapReported ==
  (Called /\ \E k \in PoolIdx, j \in CandIdx : Blocks(k, j))
    => /\ probe.result.hasConflict
       /\ \E k \in PoolIdx :
            /\ probe.pool[k].id = probe.result.conflictingBooking
            /\ \E j \in CandIdx : Blocks(k, j)

\* a candidate that covers more than the stay it overlaps, the stay being a
\* room entry of a multi-room reservation
OverlapReportedWitness ==
  /\ probe.fn = "checkRoomConflict"
  /\ probe.result.hasConflict
  /\ \E k \in PoolIdx :
       /\ probe.pool[k].id = probe.result.conflictingBooking
       /\ Len(probe.pool[k].booking_rooms) = 1
       /\ probe.pool[k].booking_rooms[1].check_out_date < probe.cands[1].check_out

\* C4: when every claim a reservation of the pool holds on a candidate's room
\* ends on or before the candidate's check-in or starts on or after its
\* check-out, both checkers return hasConflict = FALSE.
AdjacencyAllowed ==
  (Called /\ \A k \in PoolIdx, j \in CandIdx :
               \A cb \in ShownClaims(probe.pool[k]) :
                 cb[1] = probe.cands[j].room_id
                   => (cb[3] <= probe.cands[j].check_in
                       \/ probe.cands[j].check_out <= cb[2]))
    => ~probe.result.hasConflict

\* a Confirmed reservation checks out on the day the candidate for the same
\* room checks in, and no conflict is reported
AdjacencyAllowedWitness ==
  /\ probe.fn = "checkMultiRoomConflict"
  /\ ~probe.result.hasConflict
  /\ \E k \in PoolIdx, j \in CandIdx :
       /\ probe.pool[k].status = "Confirmed"
       /\ probe.pool[k].room_id = probe.cands[j].room_id
       /\ probe.pool[k].check_out = probe.cands[j].check_in

\* the candidates blocked by some reservation of the pool, and the
\* reservations of the pool that block candidate j
BlockedCands == {j \in CandIdx : \E k \in PoolIdx : Blocks(k, j)}
Blockers(j) == {k \in PoolIdx : Blocks(k, j)}

Least(S) == CHOOSE x \in S : \A y \in S : x <= y

\* C15: when several reservations of the pool conflict, checkRoomConflict
\* returns the conflicting reservation that comes first in the pool, and
\* checkMultiRoomConflict returns, for the first candidate of the list that has
\* any conflict, the conflicting reservation that comes first in the pool.
FirstConflictReturned ==
  (Called /\ BlockedCands # {})
    => /\ probe.result.hasConflict
       /\ probe.result.conflictingBooking =
            probe.pool[Least(Blockers(Least(BlockedCands)))].id

\* the first candidate is blocked by the second reservation of the pool only,
\* the second candidate by the first reservation, and the second reservation
\* is returned
FirstConflictReturnedWitness ==
  /\ probe.fn = "checkMultiRoomConflict"
  /\ Len(probe.cands) = 2 /\ Len(probe.pool) = 2
  /\ Blocks(2, 1) /\ ~Blocks(1, 1) /\ Blocks(1, 2)
  /\ probe.result.conflictingBooking = probe.pool[2].id

ActivePool == SelectSeq(probe.pool, ShownActive)

\* C5: a Cancelled or Checked-out reservation is never the reported conflict,
\* and the result of either checker is the result on the pool with every
\* such reservation removed.
ReleasedNeverConflicts ==
  Called
    => /\ \A k \in PoolIdx :
            (probe.result.hasConflict
               /\ probe.pool[k].id = probe.result.conflictingBooking)
              => ShownActive(probe.pool[k])
       /\ probe.fn = "checkRoomConflict"
            => probe.result = checkRoomConflict(probe.cands[1], ActivePool)
       /\ probe.fn = "checkMultiRoomConflict"
            => probe.result = checkMultiRoomConflict(probe.cands, ActivePool)

\* a Cancelled reservation overlaps the candidate on its room and the checker
\* reports the Confirmed reservation behind it
ReleasedNeverConflictsWitness ==
  /\ probe.fn = "checkRoomConflict"
  /\ probe.result.hasConflict
  /\ Len(probe.pool) > 1
  /\ probe.pool[1].status = "Cancelled"
  /\ probe.pool[1].room_id = probe.cands[1].room_id
  /\ probe.pool[1].check_in < probe.cands[1].check_out
  /\ probe.pool[1].check_out > probe.cands[1].check_in
  /\ probe.result.conflictingBooking = probe.pool[2].id

---------------------------------------------------------------------------
(* Properties of the calculator *)

\* x is amount a rounded to the nearest cent, a being given as the numerator of
\* a fraction with denominator den; at exactly half a cent either neighbour
NearestCent(x, num, den) ==
  /\ x % Cent = 0
  /\ 2 * (den * x - num) <= den * Cent
  /\ 2 * (num - den * x) <= den * Cent

\* days from the day of the call to check-in
ProbeDays == probe.checkInDate - probe.today

EnteredAmounts == CustomAmounts \ {NoCustom}

\* C17, as stated: the refund recorded by a cancellation with a custom amount
\* is that amount verbatim, whatever the days until check-in and the advance.
CustomRefundVerbatim ==
  [][\A booking \in Listed, c \in EnteredAmounts, d \in DaysUntil :
       processRefund(booking, "custom", c, booking.check_in - d)
         => bookings'[booking.id].refund_amount = c]_vars

\* C17, amended: the refund recorded by a cancellation with a custom amount is
\* that amount rounded to the nearest cent, and so is the refund calculateRefund
\* returns for it, policy Custom; neither depends on the days until check-in
\* nor on the advance paid, which the refund may exceed.
CustomRefundToTheCent ==
  [][\A booking \in Listed, c \in EnteredAmounts, d \in DaysUntil :
       (\/ processRefund(booking, "custom", c, booking.check_in - d)
        \/ legacyProcessRefund(booking, "custom", c, booking.check_in - d))
         => /\ bookings'[booking.id].status = "Cancelled"
            /\ NearestCent(bookings'[booking.id].refund_amount, c, 1)
            /\ \A days \in DaysUntil, advancePaid \in CalcAdvances :
                 LET r == calculateRefund(booking.price, booking.check_in,
                                          advancePaid, c, booking.check_in - days)
                 IN NearestCent(r.refundAmount, c, 1) /\ r.policy = "Custom"]_vars

\* a reservation was cancelled with a refund that is no refund of the policy:
\* 10.56 for the amount 10.557, or 300 on a smaller advance
CustomRefundToTheCentWitness ==
  \E id \in DOMAIN bookings :
    /\ bookings[id].status = "Cancelled"
    /\ build = "multi"
    /\ \/ bookings[id].refund_amount = 10 * Taka + 56 * Cent
       \/ bookings[id].refund_amount = 300 * Taka /\ bookings[id].advance < 0

\* x is num / den rounded to cents, a half cent going away from zero
HalfAwayCent(x, num, den) ==
  /\ x % Cent = 0
  /\ IF num >= 0
     THEN 2 * (den * x - num) <= den * Cent /\ 2 * (num - den * x) < den * Cent
     ELSE 2 * (den * x - num) < den * Cent /\ 2 * (num - den * x) <= den * Cent

\* C18: calculateVAT returns 0 when VAT is not applicable, and otherwise
\* price * 0.025 rounded to two decimal places, halves away from zero.
VATRoundedHalfAway ==
  probe.fn = "calculateVAT"
    => IF probe.isApplicable
       THEN HalfAwayCent(probe.result, probe.price * 25, 1000)
       ELSE probe.result = 0

\* the line totals of the room entries of the call, nights counted as days
\* from check-in to check-out
RECURSIVE LineTotals(_, _)
LineTotals(rb, k) ==
  IF k > Len(rb) THEN 0
  ELSE rb[k].price_per_night * (rb[k].check_out_date - rb[k].check_in_date)
       + LineTotals(rb, k + 1)

\* every room entry of the call ends after it starts, and there is one
ProbeCandidate ==
  /\ probe.fn = "calculateMultiRoomTotal"
  /\ Len(probe.roomBookings) > 0
  /\ \A k \in 1 .. Len(probe.roomBookings) :
       probe.roomBookings[k].check_in_date < probe.roomBookings[k].check_out_date

\* C19: for a multi-room candidate with VAT applicable and no adjustment,
\* calculateMultiRoomTotal returns as vat_amount 2.5% of the sum of the line
\* totals rounded to a whole currency unit and as total_price that sum plus
\* vat_amount; one night at 5000 and one night at 5500 give 263 and 10763.
MultiRoomVATWholeUnit ==
  (ProbeCandidate /\ probe.vatApplicable /\ probe.vatAdjustment = 0)
    => LET sum == LineTotals(probe.roomBookings, 1)
           vat == probe.result.vat_amount
       IN /\ vat % Taka = 0
          /\ 2 * (1000 * vat - 25 * sum) <= 1000 * Taka
          /\ 2 * (25 * sum - 1000 * vat) <= 1000 * Taka
          /\ probe.result.total_price = sum + vat
          /\ sum = 10500 * Taka
               => vat = 263 * Taka /\ probe.result.total_price = 10763 * Taka

\* num / den rounded to cents, a half cent going away from zero
RoundHalfAway(num, den) ==
  IF num >= 0
  THEN ((2 * num + den * Cent) \div (2 * den * Cent)) * Cent
  ELSE -(((2 * (-num) + den * Cent) \div (2 * den * Cent)) * Cent)

\* the VAT of the room entries of the call, each line rounded on its own
RECURSIVE LineVATs(_, _)
LineVATs(rb, k) ==
  IF k > Len(rb) THEN 0
  ELSE RoundHalfAway(rb[k].price_per_night
                       * (rb[k].check_out_date - rb[k].check_in_date) * 25, 1000)
       + LineVATs(rb, k + 1)

\* C20: calculateMultiRoomTotal returns as vat_amount the sum over the room
\* entries of price_per_night * nights * 0.025 rounded to two decimal places
\* (0 when VAT is not applicable) plus vatAdjustment, and as total_price the
\* sum of the line totals plus vat_amount, nights being the days from check-in
\* to check-out; total_price - vat_amount is the sum of the line totals.
MultiRoomTotalComposition ==
  probe.fn = "calculateMultiRoomTotal"
    => LET sum == LineTotals(probe.roomBookings, 1)
           vat == (IF probe.vatApplicable THEN LineVATs(probe.roomBookings, 1) ELSE 0)
                    + probe.vatAdjustment
       IN /\ probe.result.vat_amount = vat
          /\ probe.result.total_price = sum + vat
          /\ probe.result.total_price - probe.result.vat_amount = sum

---------------------------------------------------------------------------
(* Properties of the amounts of a reservation *)

\* the reservation is inserted by this step
Created(id) == id \notin DOMAIN bookings /\ id \in DOMAIN bookings'

BalanceDue(row) == row.checkout_payable = row.price + row.vat_amount - row.advance

Open(row) == row.status \notin {"Checked-out", "Cancelled"}

\* C21: every reservation created by a booking submission, single-room or
\* multi-room, is stored with checkout_payable = price + vat_amount - advance,
\* and the equality holds until the reservation is checked out or cancelled.
PayableIsBalanceDue ==
  /\ [][\A id \in Ids : Created(id) => BalanceDue(bookings'[id])]_vars
  /\ [][\A id \in DOMAIN bookings \cap DOMAIN bookings' :
          (BalanceDue(bookings[id]) /\ Open(bookings[id]) /\ Open(bookings'[id]))
            => BalanceDue(bookings'[id])]_vars

---------------------------------------------------------------------------
(* Properties of the checkout payable and of the nights *)

ProbePayable ==
  probe.totalPrice - probe.advance + probe.extraIncome - probe.discount

\* C22, as stated: calculateCheckoutPayable returns total - advance +
\* extraIncome - discount rounded to two decimal places, which may be
\* negative, and with extraIncome = 0 and discount = 0 exactly total - advance.
CheckoutPayableExact ==
  probe.fn = "calculateCheckoutPayable"
    => /\ NearestCent(probe.result, ProbePayable, 1)
       /\ (probe.extraIncome = 0 /\ probe.discount = 0)
            => probe.result = probe.totalPrice - probe.advance

\* C22, amended: calculateCheckoutPayable returns total - advance +
\* extraIncome - discount rounded to two decimal places, which may be
\* negative; with extraIncome = 0 and discount = 0 it returns exactly
\* total - advance when total and advance have no more than two decimals.
CheckoutPayableRounded ==
  probe.fn = "calculateCheckoutPayable"
    => /\ NearestCent(probe.result, ProbePayable, 1)
       /\ (/\ probe.extraIncome = 0 /\ probe.discount = 0
           /\ probe.totalPrice % Cent = 0 /\ probe.advance % Cent = 0)
            => probe.result = probe.totalPrice - probe.advance

\* an overpaid reservation: the payable of 123.45 on an advance of 200 is -76.55
CheckoutPayableRoundedWitness ==
  /\ probe.fn = "calculateCheckoutPayable"
  /\ probe.extraIncome = 0 /\ probe.discount = 0
  /\ probe.totalPrice = 123 * Taka + 45 * Cent /\ probe.advance = 200 * Taka
  /\ probe.result = -(76 * Taka + 55 * Cent)

\* the days from checkIn to checkOut, a started day counting as a whole one
StartedDays ==
  CHOOSE n \in -(MaxDay + 1) .. MaxDay + 1 :
    /\ n * MsPerDay >= probe.checkOut - probe.checkIn
    /\ (n - 1) * MsPerDay < probe.checkOut - probe.checkIn

\* C23: calculateNights(checkin, checkout) returns
\* max(ceil((checkout - checkin) / 1 day), 1), and so is at least 1 for every
\* checkin < checkout.
NightsAtLeastOne ==
  probe.fn \in {"calculateNights", "calculateNightsOfBookingUtils"}
    => /\ probe.result = IF StartedDays >= 1 THEN StartedDays ELSE 1
       /\ probe.checkIn < probe.checkOut => probe.result >= 1

---------------------------------------------------------------------------
(* Properties of the authentication *)

\* signIn returns in this step, after signInWithPassword accepted the
\* credentials of a user who is not the admin
RefusedReturn == auth.signIn = "signOut" /\ auth'.signIn = "idle"

\* C24: a protected page renders its content only while the signed-in user's
\* email is ADMIN_EMAIL, in every state, the interval of a sign-in attempt
\* included; a signIn with valid credentials for another email returns an
\* error and ends with the session signed out.
AdminOnly ==
  /\ [](ProtectedRoute(auth) = "children" => auth.user = ADMIN_EMAIL)
  /\ [][RefusedReturn => (auth'.returned = "error" /\ auth'.session = NoUser)]_vars

---------------------------------------------------------------------------
(* Properties of the checkers on the candidates of one request *)

\* two candidates of the request name the same room on overlapping dates
SiblingsOverlap ==
  \E i, j \in CandIdx :
    /\ i < j
    /\ probe.cands[i].room_id # NoRoom
    /\ ClaimHits(<<probe.cands[i].room_id, probe.cands[i].check_in,
                   probe.cands[i].check_out>>,
                 <<probe.cands[j].room_id, probe.cands[j].check_in,
                   probe.cands[j].check_out>>)

\* C25: checkMultiRoomConflict compares each candidate with the reservations
\* of the pool only, never with the other candidates of the request: it
\* reports a conflict exactly when an active reservation of the pool blocks one
\* of the candidates, so a list that names one room twice on overlapping dates
\* gets hasConflict = FALSE whenever no active reservation overlaps an entry.
SiblingsNotCompared ==
  probe.fn = "checkMultiRoomConflict"
    => /\ probe.result.hasConflict <=> BlockedCands # {}
       /\ (SiblingsOverlap /\ BlockedCands = {}) => ~probe.result.hasConflict

\* one room twice on overlapping dates, next to a pool that holds an active
\* reservation of another room: no conflict is reported
SiblingsNotComparedWitness ==
  /\ probe.fn = "checkMultiRoomConflict"
  /\ SiblingsOverlap
  /\ \E k \in PoolIdx : ShownActive(probe.pool[k])
  /\ BlockedCands = {}
  /\ ~probe.result.hasConflict

---------------------------------------------------------------------------
(* Properties of the booking lists of two operators *)

Money(row) ==
  <<row.price, row.advance, row.vat_amount, row.checkout_payable,
    row.pending_amount, row.revenue, row.refund_amount>>

\* C26: checkout and cancellation take effect only on a reservation whose
\* stored status is Confirmed: once a reservation is Checked-out or Cancelled,
\* its status and its monetary fields never change again, also when two
\* operators act on it from lists fetched before the other one's update.
ReleasedIsFinal ==
  [][\A id \in DOMAIN bookings \cap DOMAIN bookings' :
       \/ bookings[id].status = "Confirmed"
       \/ /\ bookings'[id].status = bookings[id].status
          /\ Money(bookings'[id]) = Money(bookings[id])]_vars

---------------------------------------------------------------------------
(* Properties of the refund against the advance *)

---------------------------------------------------------------------------
(* Properties of the revenue of a checked-out reservation *)

\* C28: a reservation created by a booking submission and checked out has
\* revenue = price + vat_amount, the advance of its creation plus the full
\* checkout_payable counted once, also after a second confirmed checkout.
RevenueIsTotal ==
  \A id \in DOMAIN bookings :
    bookings[id].status = "Checked-out"
      => bookings[id].revenue = bookings[id].price + bookings[id].vat_amount

---------------------------------------------------------------------------
(* Properties of the two checkers on one candidate *)

OneCandidate == Len(probe.cands) = 1 /\ probe.cands[1].room_id # NoRoom

\* C29: for a candidate with a room id and any pool, checkMultiRoomConflict on
\* the list of that one candidate returns the hasConflict and the blocking
\* reservation that checkRoomConflict returns for the candidate.
OneCandidateSameAnswer ==
  OneCandidate
    => /\ probe.fn = "checkRoomConflict"
            => probe.result = checkMultiRoomConflict(probe.cands, probe.pool)
       /\ probe.fn = "checkMultiRoomConflict"
            => probe.result = checkRoomConflict(probe.cands[1], probe.pool)

\* checkMultiRoomConflict was given one candidate and a pool whose first
\* reservation does not block it and whose second one does, by a stay of its
\* booking_rooms
OneCandidateSameAnswerWitness ==
  /\ probe.fn = "checkMultiRoomConflict"
  /\ OneCandidate
  /\ Len(probe.pool) >= 2
  /\ probe.pool[2].room_id = NullRoom
  /\ probe.result = Conflict(probe.pool[2])

---------------------------------------------------------------------------
(* Properties of what checkout and cancellation leave alone *)

\* the rows an operator can act on: of the store or of a list fetched earlier
Rows == Listed \cup UNION {allBookings[o] : o \in Operators}

\* the step leaves every reservation but id, every room entry and the room,
\* the dates and the price of reservation id as they are
OnlyAmountsOf(id) ==
  /\ booking_rooms' = booking_rooms
  /\ DOMAIN bookings' = DOMAIN bookings
  /\ \A other \in DOMAIN bookings \ {id} : bookings'[other] = bookings[other]
  /\ id \in DOMAIN bookings
       => /\ bookings'[id].room_id = bookings[id].room_id
          /\ bookings'[id].check_in = bookings[id].check_in
          /\ bookings'[id].check_out = bookings[id].check_out
          /\ bookings'[id].price = bookings[id].price

\* C30: a checkout and a cancellation of a reservation change no field of
\* another reservation and no room entry, and leave the room_id, check_in,
\* check_out and price of the reservation itself unchanged.
CheckoutCancelFrame ==
  [][\A booking \in Rows :
       /\ handleCheckout(booking) => OnlyAmountsOf(booking.id)
       /\ \A d \in DaysUntil :
            (\/ processRefund(booking, "policy", NoCustom, booking.check_in - d)
             \/ legacyProcessRefund(booking, "policy", NoCustom,
                                    booking.check_in - d))
              => OnlyAmountsOf(booking.id)
       /\ \A c \in CustomAmounts :
            (\/ processRefund(booking, "custom", c, booking.check_in)
             \/ legacyProcessRefund(booking, "custom", c, booking.check_in))
              => OnlyAmountsOf(booking.id)]_vars

\* two reservations, one of them with a room entry: one is checked out or
\* cancelled, the other one is still Confirmed
CheckoutCancelFrameWitness ==
  /\ booking_rooms # {}
  /\ \E id, other \in DOMAIN bookings :
       /\ bookings[id].status \in {"Checked-out", "Cancelled"}
       /\ bookings[other].status = "Confirmed"

===========================================================================
